---- MODULE Spec2Model ----
(***************************************************************************)
(* Model of declutter's page-acquisition and content pipeline:             *)
(*   Scraper (src/src/page.ts), declutterUrl (src/src/declutter.ts),       *)
(*   declutterToMarkdown (src/llm.ts), convertToMarkDown / StringBuilder   *)
(*   (utility), writeOutput (src/src/outputs.ts) and the REPL / exec       *)
(*   handler of src/app.ts.                                                *)
(* The pure functions pathFromUrl and the table and image rules of         *)
(* convertToMarkDown are applied to bounded inputs by specification SpecFn, *)
(* as are convertMarkdownTo, randomDelay and randomScroll; SpecConv is a    *)
(* sequence of conversions on the shared converter, and SpecLive is Spec    *)
(* with collaborators that may never answer, under weak fairness.          *)
(* Every awaited call of the code is one step; a collaborator (browser,    *)
(* page, text-generation service, file system) may let a step fail.        *)
(***************************************************************************)
EXTENDS Integers, Sequences, FiniteSets, TLC

\* ------------------------------------------------------------------ bounds
\* REPL inputs that start a run of declutterUrl
MaxRuns == 2
\* text chunks one response stream of the service may deliver
MaxChunks == 2
\* calls a call of the exported API makes (specification SpecApi)
MaxCalls == 3
\* calls of convertToMarkDown on the shared converter (specification SpecConv)
MaxConversions == 3

\* ------------------------------------------------------------ value domains
\* `private browser: Browser | null = null`: 0 is null, n > 0 the n-th launch
NoBrowser == 0
NoError == "none"
\* `string | undefined` of StringBuilder.stringify: undefined, or the string s
Undefined == [defined |-> FALSE, text |-> <<>>]
Str(s) == [defined |-> TRUE, text |-> s]

Formats == {"md", "html", "pdf"}
\* a chunk of the text stream: a string over a two-letter alphabet
Chunks == {<<>>, <<"a">>, <<"b">>}
\* rendered markup: a sequence of elements
Htmls == {<<>>, <<"script">>, <<"text">>, <<"script", "text">>}
\* documents a caller may hand to declutterToMarkdown
Docs == {<<>>, <<" ">>, <<"text">>, <<" ", "text">>}
unwantedTags == {"script", "style", "iframe", "object", "embed", "noscript"}
\* options of scrapePage
ScrapeOptions == [waitForSelector : BOOLEAN, screenshot : BOOLEAN, humanBehavior : BOOLEAN]
\* declutterUrl calls scrapePage(url.href, { humanBehavior: true })
DeclutterOptions == [waitForSelector |-> FALSE, screenshot |-> FALSE, humanBehavior |-> TRUE]

\* a value of the object handed to objectToMarkdownTable: a string, a number
\* or undefined
StringValue(s) == [type |-> "string", n |-> 0, s |-> s]
NumberValue(n) == [type |-> "number", n |-> n, s |-> <<>>]
UndefinedValue == [type |-> "undefined", n |-> 0, s |-> <<>>]
NoUsage ==
  [inputTokens |-> UndefinedValue, outputTokens |-> UndefinedValue,
   totalTokens |-> UndefinedValue]
\* the token counters the service reports with a response: all, or none
Usages ==
  { [inputTokens |-> NumberValue(7), outputTokens |-> NumberValue(12),
     totalTokens |-> NumberValue(19)],
    NoUsage }
\* a URL: host name and path, each a string (a sequence of characters)
Url(h, p) == [hostname |-> h, pathname |-> p]
\* the URLs typed at the REPL prompt
ReplUrls ==
  { Url(<<"w", "w", "w", ".", "a", ".", "c", "o">>, <<"/", "x", "/", "y">>),
    Url(<<"a", ".", "c", "o">>, <<"/">>) }
\* no function applied, nothing returned
NoInput == [fn |-> "none", arg |-> <<>>]
NoResult == [done |-> FALSE, value |-> <<>>]
\* no page opened yet by scrapePage / printPdf of the current run
NoOwner == [scrape |-> NoBrowser, print |-> NoBrowser]

VARIABLES
  call,          \* the top-level call in progress: "declutterUrl" (app.ts), or the
                 \* exported function a direct caller invoked
  pc,            \* the statement about to run
  err,           \* the exception in flight inside declutterUrl (NoError if none)
  outcome,       \* how the last top-level call ended: "ok", an error, or NoError before any
  runs,          \* runs of declutterUrl started (repl) or calls made (api)
  errorsPrinted, \* console.error lines of the exec handler
  browser,       \* Scraper.browser
  procs,         \* the browser processes launched so far, by launch number: state,
                 \* browser.close() calls (attempts), those that succeeded (kills)
  page,          \* the page of the current scrapePage call: "none", "open", "closed"
  pageCloseCalls,\* page.close() invocations on that page
  printPage,     \* the page of the current printPdf call
  openPages,     \* pages of earlier calls still open in the held browser
  opts,          \* the options of the current scrapePage call
  outputFormat,  \* declutterInput.outputFormat
  html,          \* page.content()
  tempMarkdown,  \* convertToMarkDown(html) / the toDeclutter argument
  delivered,     \* chunks the service has delivered so far, in arrival order
  parts,         \* StringBuilder.parts
  decluttered,   \* the value declutterToMarkdown returned
  declutteredMarkdown, \* the markdown handed to writeOutput
  log,           \* stage events of the current run of declutterUrl
  steps,         \* the steps of the current scrapePage call that completed
  launches,      \* puppeteer.launch calls of the current run
  gotos,         \* page.goto calls of the current run
  streamCalls,   \* streamText calls of the current run / call
  closes,        \* what each Scraper.close() of the current run did, in call order
  dirCreated,    \* mkdirSync has run in the current run
  files,         \* the files written in the current run: path and content
  url,           \* declutterInput.url
  usage,         \* the token counters declutterToMarkdown returned
  owner,         \* the browser the scrapePage page and the printPdf page opened in
  leakedPages,   \* scrapePage pages of earlier calls still open in the held browser
  rules,         \* tdService: the rules of the shared converter, in lookup order
  applied,       \* the function a caller applies, and its argument
  returned       \* what the function returned

ctlVars == <<call, pc, err, outcome, runs, errorsPrinted>>
sessVars == <<browser, procs>>
pageVars == <<page, pageCloseCalls, printPage, openPages, opts, steps>>
dataVars == <<html, tempMarkdown, delivered, parts, decluttered, declutteredMarkdown>>
histVars == <<log, launches, gotos, streamCalls, closes>>
outVars == <<outputFormat, dirCreated, files>>
auxVars == <<url, usage, owner, leakedPages>>
fnVars == <<applied, returned, rules>>
vars == <<ctlVars, sessVars, pageVars, dataVars, histVars, outVars, auxVars,
          fnVars>>

\* --------------------------------------------------------------- helpers
RECURSIVE join(_)
\* Array.prototype.join(''): the strings of a list, concatenated in order
join(ps) == IF ps = <<>> THEN <<>> ELSE Head(ps) \o join(Tail(ps))

RECURSIVE startsWith(_, _)
\* String.prototype.startsWith
startsWith(s, prefix) ==
  IF prefix = <<>> THEN TRUE
  ELSE IF s = <<>> THEN FALSE
       ELSE Head(s) = Head(prefix) /\ startsWith(Tail(s), Tail(prefix))

\* String.prototype.slice(n): the string without its first n characters
slice(s, n) == SubSeq(s, n + 1, Len(s))

RECURSIVE trimStart(_)
trimStart(s) ==
  IF s # <<>> /\ Head(s) = " " THEN trimStart(Tail(s)) ELSE s
RECURSIVE trimEnd(_)
trimEnd(s) ==
  IF s # <<>> /\ s[Len(s)] = " " THEN trimEnd(SubSeq(s, 1, Len(s) - 1)) ELSE s
\* String.prototype.trim
trim(s) == trimEnd(trimStart(s))

RECURSIVE joinWith(_, _)
\* Array.prototype.join(sep)
joinWith(ps, sep) ==
  IF ps = <<>> THEN <<>>
  ELSE IF Len(ps) = 1 THEN Head(ps)
       ELSE Head(ps) \o sep \o joinWith(Tail(ps), sep)

RECURSIVE remove(_)
\* tdService.remove(unwantedTags): unwanted elements leave no text
remove(h) ==
  IF h = <<>> THEN <<>>
  ELSE IF Head(h) \in unwantedTags THEN remove(Tail(h))
       ELSE <<Head(h)>> \o remove(Tail(h))

\* convertToMarkDown: `if (input) return tdService.turndown(input); return input`
convertToMarkDown(input) == IF input # <<>> THEN remove(input) ELSE input

\* Scraper.isInitialized
isInitialized == browser # NoBrowser

\* page.ts 60 and 84: `!this.browser`, the guard of printPdf and of createPage
browserMissingNever == FALSE
browserMissing == browser = NoBrowser

\* page.ts 297: `this.browser = null` after the awaited browser.close()
keptHandle(b) == b
closedHandle(b) == NoBrowser

\* declutter.ts 24-72: the statement of declutterUrl that follows a completed
\* stage (each call is awaited before the next statement runs)
afterStageSkipping(stage) ==
  CASE stage = "initialize" -> "convertToMarkDown"
    [] stage = "acquisition" -> "convertToMarkDown"
    [] stage = "distillation" -> "metadata"
    [] stage = "printPdf" -> "writeMd"
    [] stage = "close" -> "end"
afterStageClosingEarly(stage) ==
  CASE stage = "initialize" -> "scrapePage"
    [] stage = "acquisition" -> "convertToMarkDown"
    [] stage = "distillation" -> "finally"
    [] stage = "printPdf" -> "writeMd"
    [] stage = "close" -> "end"
afterStage(stage) ==
  CASE stage = "initialize" -> "scrapePage"
    [] stage = "acquisition" -> "convertToMarkDown"
    [] stage = "distillation" -> "metadata"
    [] stage = "printPdf" -> "writeMd"
    [] stage = "close" -> "end"

\* a stage event of declutterUrl is recorded only inside a run of declutterUrl
Logged(e) == IF call = "declutterUrl" THEN Append(log, e) ELSE log

\* an exception leaves the callee: declutterUrl's try sends it to the finally block
Throw(e) ==
  /\ pc' = IF call = "declutterUrl" THEN "finally" ELSE "api"
  /\ err' = IF call = "declutterUrl" THEN e ELSE NoError
  /\ outcome' = IF call = "declutterUrl" THEN outcome ELSE e

\* the callee returns normally: declutterUrl goes on with `next`
Return(next) ==
  /\ pc' = IF call = "declutterUrl" THEN next ELSE "api"
  /\ err' = err
  /\ outcome' = IF call = "declutterUrl" THEN outcome ELSE "ok"

\* a rule of the converter: its key, the tag its filter selects, and the
\* hostname its replacement closes over
Rule(key, filter, hostname) ==
  [key |-> key, filter |-> filter, hostname |-> hostname]
\* utility 6: new TurndownService() starts with the CommonMark rules; the one
\* that selects img elements is `image`
commonmarkRules == <<Rule("image", "img", <<>>)>>

\* the state every run / call starts from
FreshRun ==
  /\ page' = "none" /\ pageCloseCalls' = 0 /\ printPage' = "none"
  /\ steps' = <<>>
  /\ html' = <<>> /\ delivered' = <<>> /\ parts' = <<>>
  /\ decluttered' = Undefined /\ declutteredMarkdown' = <<>>
  /\ log' = <<>> /\ launches' = 0 /\ gotos' = 0 /\ streamCalls' = 0 /\ closes' = <<>>
  /\ dirCreated' = FALSE /\ files' = {}
  /\ usage' = NoUsage /\ owner' = NoOwner
  /\ err' = NoError

InitCommon ==
  /\ err = NoError /\ outcome = NoError /\ runs = 0 /\ errorsPrinted = 0
  /\ browser = NoBrowser /\ procs = <<>>
  /\ page = "none" /\ pageCloseCalls = 0 /\ printPage = "none" /\ openPages = 0
  /\ opts = DeclutterOptions /\ steps = <<>>
  /\ html = <<>> /\ tempMarkdown = <<>> /\ delivered = <<>> /\ parts = <<>>
  /\ decluttered = Undefined /\ declutteredMarkdown = <<>>
  /\ log = <<>> /\ launches = 0 /\ gotos = 0 /\ streamCalls = 0 /\ closes = <<>>
  /\ outputFormat = "md" /\ dirCreated = FALSE /\ files = {}
  /\ rules = commonmarkRules
  /\ url = Url(<<>>, <<>>) /\ usage = NoUsage /\ owner = NoOwner /\ leakedPages = 0

\* the program as started in REPL mode
Init ==
  /\ call = "declutterUrl" /\ pc = "repl" /\ InitCommon
  /\ applied = NoInput /\ returned = NoResult

\* a call of the exported Scraper class and of declutterToMarkdown
InitApi ==
  /\ call = "none" /\ pc = "api" /\ InitCommon
  /\ applied = NoInput /\ returned = NoResult

\* ------------------------------------------------- REPL and exec handler
\* app.ts repl handler: `const input = await rl.question('> ')`, then
\* runSafely(exec, args): the exec handler calls declutterUrl
ReplQuestion ==
  /\ pc = "repl" /\ runs < MaxRuns
  /\ \E f \in Formats : outputFormat' = f
  /\ \E u \in ReplUrls : url' = u
  /\ FreshRun
  /\ runs' = runs + 1 /\ outcome' = NoError
  /\ opts' = DeclutterOptions /\ tempMarkdown' = <<>>
  /\ pc' = "try"
  /\ UNCHANGED <<call, errorsPrinted, fnVars, sessVars, openPages, leakedPages>>

\* app.ts repl handler: input 'exit' closes the readline interface and breaks
ReplExit ==
  /\ pc = "repl"
  /\ pc' = "exited"
  /\ UNCHANGED <<call, err, outcome, runs, errorsPrinted, fnVars, auxVars, sessVars, pageVars,
                 dataVars, histVars, outVars>>

\* app.ts 195: `error instanceof Error`; what the browser, the service and the
\* file system reject with are Error objects
instanceofErrorNever(error) == FALSE
instanceofError(error) == error # "ok"

\* app.ts exec handler: catch (error) { if (error instanceof Error)
\* console.error(...) }; the loop goes on
ExecHandler ==
  /\ pc = "handler"
  /\ errorsPrinted' = IF outcome # "ok" /\ instanceofError(outcome)
                        THEN errorsPrinted + 1 ELSE errorsPrinted
  /\ pc' = "repl"
  /\ UNCHANGED <<call, err, outcome, runs, fnVars, auxVars, sessVars, pageVars,
                 dataVars, histVars, outVars>>

\* ------------------------------------------------------------ declutterUrl
\* declutter.ts 25-27: if (!scraper.isInitialized()) await scraper.initialize()
DeclutterUrlTry ==
  /\ pc = "try"
  /\ IF isInitialized
       THEN pc' = "scrapePage" /\ log' = log
       ELSE pc' = "initialize" /\ log' = Logged(<<"initialize", "begin">>)
  /\ UNCHANGED <<call, err, outcome, runs, errorsPrinted, fnVars, auxVars, sessVars, pageVars,
                 dataVars, launches, gotos, streamCalls, closes, outVars>>

\* declutter.ts 29-31: const html = await scraper.scrapePage(url.href, {...})
DeclutterUrlScrape ==
  /\ pc = "scrapePage"
  /\ log' = Logged(<<"acquisition", "begin">>)
  /\ pc' = "createPage"
  /\ UNCHANGED <<call, err, outcome, runs, errorsPrinted, fnVars, auxVars, sessVars, pageVars,
                 dataVars, launches, gotos, streamCalls, closes, outVars>>

\* ------------------------------------------------------ Scraper.initialize
\* page.ts 36-57: this.browser = await puppeteer.launch(...)
InitializeOk ==
  /\ pc = "initialize"
  /\ procs' = Append(procs, [state |-> "live", attempts |-> 0, kills |-> 0])
  /\ browser' = Len(procs) + 1
  /\ openPages' = 0 /\ leakedPages' = 0
  /\ launches' = launches + 1
  /\ log' = Logged(<<"initialize", "end">>)
  /\ Return(afterStage("initialize"))
  /\ UNCHANGED <<call, runs, errorsPrinted, fnVars, url, usage, owner, page, pageCloseCalls, printPage,
                 opts, steps, dataVars, gotos, streamCalls, closes, outVars>>

\* puppeteer.launch rejects: the assignment never happens
InitializeFail ==
  /\ pc = "initialize"
  /\ launches' = launches + 1
  /\ Throw("LaunchFailure")
  /\ UNCHANGED <<call, runs, errorsPrinted, fnVars, auxVars, sessVars, pageVars, dataVars,
                 log, gotos, streamCalls, closes, outVars>>

\* ------------------------------------------------------ Scraper.createPage
\* page.ts 84-86: if (!this.browser) throw new Error('Browser not initialized...')
CreatePageGuard ==
  /\ pc = "createPage"
  /\ IF browserMissing
       THEN Throw("SessionNotReady")
       ELSE pc' = "newPage" /\ UNCHANGED <<err, outcome>>
  /\ UNCHANGED <<call, runs, errorsPrinted, fnVars, auxVars, sessVars, pageVars, dataVars,
                 histVars, outVars>>

\* page.ts 88: const page = await this.browser.newPage()
NewPage ==
  /\ pc = "newPage"
  /\ \/ /\ page' = "open"
        /\ owner' = [owner EXCEPT !.scrape = browser]
        /\ pc' = "createCDPSession"
        /\ UNCHANGED <<err, outcome>>
     \/ /\ page' = page /\ owner' = owner
        /\ Throw("NewPageError")
  /\ UNCHANGED <<call, runs, errorsPrinted, fnVars, url, usage, leakedPages, sessVars, pageCloseCalls, printPage,
                 openPages, opts, steps, dataVars, histVars, outVars>>

\* page.ts 91-172: the awaited configuration calls of createPage, in order
CreatePageSteps ==
  <<"createCDPSession", "setUserAgentOverride", "setViewport",
    "setExtraHTTPHeaders", "evaluateOnNewDocument", "addRandomMouseMovements">>

\* page.ts 174 / 202: `return page`, and scrapePage enters its try block
AfterCreatePage(i) ==
  IF i < Len(CreatePageSteps) THEN CreatePageSteps[i + 1] ELSE "goto"

\* one configuration call of createPage: it resolves, or it rejects and the
\* rejection leaves createPage and scrapePage (line 202 is outside the try),
\* with the page still open
CreatePageConfigure ==
  /\ \E i \in 1..Len(CreatePageSteps) :
       /\ pc = CreatePageSteps[i]
       /\ \/ /\ pc' = AfterCreatePage(i)
             /\ steps' = Append(steps, CreatePageSteps[i])
             /\ UNCHANGED <<err, outcome, openPages, leakedPages>>
          \/ /\ Throw("CreatePageError")
             /\ openPages' = openPages + 1
             /\ leakedPages' = leakedPages + 1
             /\ steps' = steps
  /\ UNCHANGED <<call, runs, errorsPrinted, fnVars, url, usage, owner, sessVars, page, pageCloseCalls,
                 printPage, opts, dataVars, histVars, outVars>>

\* ------------------------------------------------------ Scraper.scrapePage
\* page.ts 219 and 226: what follows the navigation and the selector wait
\* (opts.humanBehavior is the value of `options.humanBehavior !== false`)
AfterSelectorSkipping == "content"
AfterSelector == IF opts.humanBehavior THEN "delay1" ELSE "content"
AfterGoto == IF opts.waitForSelector THEN "waitForSelector" ELSE AfterSelector
\* page.ts 254: what follows the capture of the markup
AfterContent == IF opts.screenshot THEN "screenshot" ELSE "pageClose"

\* page.ts 209-214: await page.goto(url, { waitUntil: 'networkidle2', timeout })
Goto ==
  /\ pc = "goto"
  /\ gotos' = gotos + 1
  /\ \/ /\ pc' = AfterGoto /\ steps' = Append(steps, "goto") /\ err' = err
     \/ /\ pc' = "catch" /\ steps' = steps
        /\ \E e \in {"NavigationTimeout", "NavigationError"} : err' = e
  /\ UNCHANGED <<call, outcome, runs, errorsPrinted, fnVars, auxVars, sessVars, page,
                 pageCloseCalls, printPage, openPages, opts, dataVars, log,
                 launches, streamCalls, closes, outVars>>

\* page.ts 219-223: await page.waitForSelector(options.waitForSelector, {timeout})
WaitForSelector ==
  /\ pc = "waitForSelector"
  /\ \/ /\ pc' = AfterSelector /\ steps' = Append(steps, "waitForSelector")
        /\ err' = err
     \/ /\ pc' = "catch" /\ steps' = steps /\ err' = "SelectorTimeout"
  /\ UNCHANGED <<call, outcome, runs, errorsPrinted, fnVars, auxVars, sessVars, page,
                 pageCloseCalls, printPage, openPages, opts, dataVars,
                 histVars, outVars>>

\* page.ts 227-247: the human-behaviour simulation, in order
HumanSteps == <<"delay1", "mouseMove", "delay2", "randomScroll", "delay3">>
\* randomDelay (page.ts 5-8) is a timer: it always resolves; page.mouse.move
\* and page.evaluate (randomScroll, 274-292) talk to the page and may reject
CanReject(s) == s \in {"mouseMove", "randomScroll"}

HumanBehavior ==
  /\ \E i \in 1..Len(HumanSteps) :
       /\ pc = HumanSteps[i]
       /\ \/ /\ pc' = IF i < Len(HumanSteps) THEN HumanSteps[i + 1] ELSE "content"
             /\ steps' = Append(steps, HumanSteps[i])
             /\ err' = err
          \/ /\ CanReject(HumanSteps[i])
             /\ pc' = "catch" /\ steps' = steps /\ err' = "BehaviorError"
  /\ UNCHANGED <<call, outcome, runs, errorsPrinted, fnVars, auxVars, sessVars, page,
                 pageCloseCalls, printPage, openPages, opts, dataVars,
                 histVars, outVars>>

\* page.ts 251: const html = await page.content()
Content ==
  /\ pc = "content"
  /\ \/ /\ \E h \in Htmls : html' = h
        /\ pc' = AfterContent /\ steps' = Append(steps, "content") /\ err' = err
     \/ /\ pc' = "catch" /\ steps' = steps /\ err' = "ContentError" /\ html' = html
  /\ UNCHANGED <<call, outcome, runs, errorsPrinted, fnVars, auxVars, sessVars, page,
                 pageCloseCalls, printPage, openPages, opts, tempMarkdown,
                 delivered, parts, decluttered, declutteredMarkdown, histVars,
                 outVars>>

\* page.ts 254-259: await page.screenshot({ path, fullPage: true })
Screenshot ==
  /\ pc = "screenshot"
  /\ \/ /\ pc' = "pageClose" /\ steps' = Append(steps, "screenshot") /\ err' = err
     \/ /\ pc' = "catch" /\ steps' = steps /\ err' = "ScreenshotError"
  /\ UNCHANGED <<call, outcome, runs, errorsPrinted, fnVars, auxVars, sessVars, page,
                 pageCloseCalls, printPage, openPages, opts, dataVars,
                 histVars, outVars>>

\* page.ts 262-267: await page.close() inside the try block, then return html.
\* A rejected page.close() is caught by the catch clause of the same try.
PageClose ==
  /\ pc = "pageClose"
  /\ pageCloseCalls' = pageCloseCalls + 1
  /\ \/ /\ page' = "closed"
        /\ steps' = Append(steps, "pageClose")
        /\ log' = Logged(<<"acquisition", "end">>)
        /\ openPages' = openPages
        /\ Return(afterStage("acquisition"))
     \/ /\ \E p \in {"open", "closed"} : page' = p
        /\ steps' = steps /\ log' = log /\ openPages' = openPages
        /\ pc' = "catch" /\ err' = "PageCloseError" /\ outcome' = outcome
  /\ UNCHANGED <<call, runs, errorsPrinted, fnVars, auxVars, sessVars, printPage, opts,
                 dataVars, launches, gotos, streamCalls, closes, outVars>>

\* page.ts 268-271: catch (error) { await page.close(); throw error; }
\* If this page.close() rejects, its rejection is what scrapePage throws.
Catch ==
  /\ pc = "catch"
  /\ pageCloseCalls' = pageCloseCalls + 1
  /\ \/ /\ page' = "closed"
        /\ openPages' = openPages /\ leakedPages' = leakedPages
        /\ Throw(err)
     \/ /\ \E p \in {page, "closed"} :
             /\ page' = p
             /\ openPages' = IF p = "open" THEN openPages + 1 ELSE openPages
             /\ leakedPages' = IF p = "open" THEN leakedPages + 1
                                ELSE leakedPages
        /\ Throw("PageCloseError")
  /\ UNCHANGED <<call, runs, errorsPrinted, fnVars, url, usage, owner, sessVars, printPage, opts, steps,
                 dataVars, histVars, outVars>>

\* -------------------------------------------------------- normalization
\* declutter.ts 33: const tempMarkdown = convertToMarkDown(html, url.hostname)
\* (synchronous: it starts and ends in one step, or throws)
Normalize ==
  /\ pc = "convertToMarkDown"
  /\ \/ /\ tempMarkdown' = convertToMarkDown(html)
        /\ log' = log \o <<<<"normalization", "begin">>, <<"normalization", "end">>>>
        /\ pc' = "declutterToMarkdown"
        /\ UNCHANGED <<err, outcome>>
     \/ /\ tempMarkdown' = tempMarkdown
        /\ log' = Append(log, <<"normalization", "begin">>)
        /\ Throw("ConvertError")
  /\ UNCHANGED <<call, runs, errorsPrinted, fnVars, auxVars, sessVars, pageVars, html,
                 delivered, parts, decluttered, declutteredMarkdown, launches,
                 gotos, streamCalls, closes, outVars>>

\* --------------------------------------------------- declutterToMarkdown
\* llm.ts 11: `!toDeclutter` is true of the empty string only
isBlankGuard(toDeclutter) == toDeclutter = <<>>

\* llm.ts 11-13: if (!toDeclutter) throw new Error('input to declutter cannot be blank')
DeclutterGuard ==
  /\ pc = "declutterToMarkdown"
  /\ log' = Logged(<<"distillation", "begin">>)
  /\ IF isBlankGuard(tempMarkdown)
       THEN Throw("EmptyInput")
       ELSE pc' = "streamText" /\ UNCHANGED <<err, outcome>>
  /\ UNCHANGED <<call, runs, errorsPrinted, fnVars, auxVars, sessVars, pageVars, dataVars,
                 launches, gotos, streamCalls, closes, outVars>>

\* llm.ts 15-24: const stream = streamText({...}); const sb = new StringBuilder()
StreamText ==
  /\ pc = "streamText"
  /\ streamCalls' = streamCalls + 1
  /\ parts' = <<>> /\ delivered' = <<>>
  /\ pc' = "textStream"
  /\ UNCHANGED <<call, err, outcome, runs, errorsPrinted, fnVars, auxVars, sessVars, pageVars,
                 html, tempMarkdown, decluttered, declutteredMarkdown, log,
                 launches, gotos, closes, outVars>>

\* utility 104-108: add(...inputParts) pushes the parts at the end of the list
addFront(ps, chunk) == <<chunk>> \o ps
add(ps, chunk) == ps \o <<chunk>>

\* utility 110-114: stringify() joins the parts; with no part it returns undefined
stringify(ps) == IF Len(ps) > 0 THEN Str(join(ps)) ELSE Undefined

\* llm.ts 25-27: for await (const chunk of stream.textStream) sb.add(chunk)
TextStreamChunk ==
  /\ pc = "textStream"
  /\ Len(delivered) < MaxChunks
  /\ \E chunk \in Chunks :
       /\ delivered' = Append(delivered, chunk)
       /\ parts' = add(parts, chunk)
  /\ UNCHANGED <<ctlVars, fnVars, auxVars, sessVars, pageVars, html, tempMarkdown, decluttered,
                 declutteredMarkdown, histVars, outVars>>

\* the stream (the transport) fails while it is consumed
TextStreamFail ==
  /\ pc = "textStream"
  /\ Throw("DistillationServiceFailure")
  /\ UNCHANGED <<call, runs, errorsPrinted, fnVars, auxVars, sessVars, pageVars, dataVars,
                 histVars, outVars>>

\* llm.ts 28: the stream ends; return sb.stringify()
TextStreamEnd ==
  /\ pc = "textStream"
  /\ decluttered' = stringify(parts)
  /\ \E u \in Usages : usage' = u
  /\ log' = Logged(<<"distillation", "end">>)
  /\ Return(afterStage("distillation"))
  /\ UNCHANGED <<call, runs, errorsPrinted, fnVars, url, owner, leakedPages, sessVars, pageVars, html,
                 tempMarkdown, delivered, parts, declutteredMarkdown, launches,
                 gotos, streamCalls, closes, outVars>>

\* ------------------------------------------------- declutterUrl, continued
\* declutter.ts 75-98: the metadata table appended to the artifact
LowerCase ==
  <<"a", "b", "c", "d", "e", "f", "g", "h", "i", "j", "k", "l", "m",
    "n", "o", "p", "q", "r", "s", "t", "u", "v", "w", "x", "y", "z">>
UpperCase ==
  <<"A", "B", "C", "D", "E", "F", "G", "H", "I", "J", "K", "L", "M",
    "N", "O", "P", "Q", "R", "S", "T", "U", "V", "W", "X", "Y", "Z">>
\* String.prototype.toUpperCase, of one character
toUpperCase(c) ==
  IF \E i \in DOMAIN LowerCase : LowerCase[i] = c
    THEN UpperCase[CHOOSE i \in DOMAIN LowerCase : LowerCase[i] = c]
    ELSE c

RECURSIVE spaced(_)
\* declutter.ts 84: str.replace(/([A-Z])/g, ' $1')
spaced(str) ==
  IF str = <<>> THEN <<>>
  ELSE (IF \E i \in DOMAIN UpperCase : UpperCase[i] = Head(str)
          THEN <<" ", Head(str)>> ELSE <<Head(str)>>) \o spaced(Tail(str))

\* declutter.ts 83-87: camelCase key to Title Case label
camelToTitleCase(str) ==
  LET withSpaces == trim(spaced(str))
  IN IF withSpaces = <<>> THEN <<>>
     ELSE <<toUpperCase(withSpaces[1])>> \o Tail(withSpaces)

\* declutter.ts 92: value === null || value === undefined ? '' : String(value)
displayValueRaw(value) ==
  CASE value.type = "undefined" -> <<"undefined">>
    [] value.type = "number" -> <<ToString(value.n)>>
    [] value.type = "string" -> value.s
displayValue(value) ==
  CASE value.type = "undefined" -> <<>>
    [] value.type = "number" -> <<ToString(value.n)>>
    [] value.type = "string" -> value.s

\* declutter.ts 90-94: `| ${label} | ${displayValue} |`, one row per entry of
\* the object, in the order of Object.entries (declutterUrl passes no labels)
tableRows(obj) ==
  [i \in DOMAIN obj |->
     <<"| ">> \o camelToTitleCase(obj[i].key) \o <<" | ">>
       \o displayValue(obj[i].value) \o <<" |">>]

\* declutter.ts 75-98: the header row and the rows, joined by newlines, after
\* two newlines and a space
objectToMarkdownTable(obj) ==
  <<"\n", "\n", " ">> \o
  joinWith(<< <<"| Metadata | Value |", "\n", "|-------|-------|">> >>
             \o tableRows(obj), <<"\n">>)

\* url.href
href(u) == <<"https://">> \o u.hostname \o u.pathname

\* declutter.ts 50-57: new Date().toLocaleString('en-US', {...}) of the run
Now == <<"Nov 2, 2026, 10:00 AM">>

\* declutter.ts 47-60: objectToMarkdownTable({ url, time, inputTokens,
\* outputTokens, totalTokens })
metadataTable ==
  objectToMarkdownTable(
    << [key |-> <<"u", "r", "l">>, value |-> StringValue(href(url))],
       [key |-> <<"t", "i", "m", "e">>, value |-> StringValue(Now)],
       [key |-> <<"i", "n", "p", "u", "t", "T", "o", "k", "e", "n", "s">>,
        value |-> usage.inputTokens],
       [key |-> <<"o", "u", "t", "p", "u", "t", "T", "o", "k", "e", "n", "s">>,
        value |-> usage.outputTokens],
       [key |-> <<"t", "o", "t", "a", "l", "T", "o", "k", "e", "n", "s">>,
        value |-> usage.totalTokens] >>)

\* declutter.ts 62-64: decluttered ? decluttered + metadataTable : metadataTable
withMetadataAlways(d) ==
  (IF d.defined THEN d.text ELSE <<"undefined">>) \o metadataTable
withMetadata(d) ==
  IF d.defined /\ d.text # <<>> THEN d.text \o metadataTable ELSE metadataTable

\* declutter.ts 47-69: build the markdown and call writeOutput; the locals of
\* declutterToMarkdown (the stream, the StringBuilder) are gone by now
Metadata ==
  /\ pc = "metadata"
  /\ declutteredMarkdown' = withMetadata(decluttered)
  /\ delivered' = <<>> /\ parts' = <<>>
  /\ log' = Logged(<<"output", "begin">>)
  /\ pc' = "writeOutput"
  /\ UNCHANGED <<call, err, outcome, runs, errorsPrinted, fnVars, auxVars, sessVars, pageVars,
                 html, tempMarkdown, decluttered, launches, gotos, streamCalls,
                 closes, outVars>>

\* ------------------------------------------------------------ pathFromUrl
RECURSIVE replaceAll(_, _, _)
\* String.prototype.replaceAll(pattern, replacement), left to right
replaceAll(s, pattern, replacement) ==
  IF s = <<>> THEN <<>>
  ELSE IF startsWith(s, pattern)
         THEN replacement \o replaceAll(slice(s, Len(pattern)), pattern, replacement)
         ELSE <<Head(s)>> \o replaceAll(Tail(s), pattern, replacement)

RECURSIVE split(_, _)
\* String.prototype.split(separator), separator one character: the pieces
\* between the separators, empty pieces included
split(s, separator) ==
  IF \A i \in DOMAIN s : s[i] # separator THEN <<s>>
  ELSE LET i == CHOOSE k \in DOMAIN s :
                  s[k] = separator /\ \A j \in 1..(k - 1) : s[j] # separator
       IN <<SubSeq(s, 1, i - 1)>> \o split(slice(s, i), separator)

\* outputs.ts 170: url.hostname.replaceAll('www.', '').replaceAll('.', '-')
directoryOf(hostname) ==
  replaceAll(replaceAll(hostname, <<"w", "w", "w", ".">>, <<>>), <<".">>, <<"-">>)

\* outputs.ts 180-183: split('/'), trim every segment, drop the empty ones
segmentsOf(pathname) ==
  LET pieces == split(pathname, "/")
      trimmed == [i \in DOMAIN pieces |-> trim(pieces[i])]
  IN SelectSeq(trimmed, LAMBDA segment : segment # <<>>)

\* outputs.ts 193: pathSegments[pathSegments.length - 1]
firstSegment(pathSegments) == pathSegments[1]
lastSegment(pathSegments) == pathSegments[Len(pathSegments)]

index == <<"i", "n", "d", "e", "x">>

\* outputs.ts 164-195
pathFromUrl(u) ==
  LET directory == directoryOf(u.hostname)
      pathSegments == segmentsOf(u.pathname)
  IN IF u.pathname = <<"/">> \/ u.pathname = <<>>
       THEN [directory |-> directory, fileNamePrefix |-> index]
       ELSE IF Len(pathSegments) = 0
         THEN [directory |-> directory, fileNamePrefix |-> index]
         ELSE [directory |-> directory,
               fileNamePrefix |-> lastSegment(pathSegments)]

\* ------------------------------------------------------------ writeOutput
\* declutterInput.outputDirectory and path.sep
outputDirectory == <<"out">>
sep == <<"/">>
DECLUTTERED_DIRECTORY == <<"Decluttered">>

\* outputs.ts 112-116: finalDirectory and, under it, the file name prefix
finalDirectory(u) ==
  outputDirectory \o sep \o DECLUTTERED_DIRECTORY \o sep \o pathFromUrl(u).directory
finalPathFlat(u) == outputDirectory \o sep \o pathFromUrl(u).fileNamePrefix
finalPath(u) == finalDirectory(u) \o sep \o pathFromUrl(u).fileNamePrefix

\* a file: its path and what was written to it (the markdown, or a rendering
\* of the markdown)
File(path, kind, text) == [path |-> path, kind |-> kind, text |-> text]

\* outputs.ts 118-161: the first statement of the switch branch of a format
FormatBranch(f) ==
  CASE f = "md" -> "writeMd"
    [] f = "html" -> "writeHtml"
    [] f = "pdf" -> "printPdf"

\* outputs.ts 112-116: fs.mkdirSync(finalDirectory, { recursive: true })
WriteOutputMkdir ==
  /\ pc = "writeOutput"
  /\ \/ /\ dirCreated' = TRUE
        /\ pc' = FormatBranch(outputFormat)
        /\ UNCHANGED <<err, outcome>>
     \/ /\ dirCreated' = dirCreated
        /\ Throw("MkdirError")
  /\ UNCHANGED <<call, runs, errorsPrinted, fnVars, auxVars, sessVars, pageVars, dataVars,
                 histVars, outputFormat, files>>

\* outputs.ts 127-135: render the styled HTML and write <prefix>.html
WriteHtml ==
  /\ pc = "writeHtml"
  /\ \/ /\ files' = files \cup
             {File(finalPath(url) \o <<".html">>, "html", declutteredMarkdown)}
        /\ pc' = "writeMd"
        /\ UNCHANGED <<err, outcome>>
     \/ /\ files' = files
        /\ Throw("WriteError")
  /\ UNCHANGED <<call, runs, errorsPrinted, fnVars, auxVars, sessVars, pageVars, dataVars,
                 histVars, outputFormat, dirCreated>>

\* outputs.ts 120-124, 136-140, 153-157: write <prefix>.md, the last statement
\* of every branch; writeOutput then returns into declutterUrl's finally
WriteMd ==
  /\ pc = "writeMd"
  /\ \/ /\ files' = files \cup
             {File(finalPath(url) \o <<".md">>, "markdown", declutteredMarkdown)}
        /\ log' = Logged(<<"output", "end">>)
        /\ pc' = "finally"
        /\ UNCHANGED <<err, outcome>>
     \/ /\ files' = files /\ log' = log
        /\ Throw("WriteError")
  /\ UNCHANGED <<call, runs, errorsPrinted, fnVars, auxVars, sessVars, pageVars, dataVars,
                 launches, gotos, streamCalls, closes, outputFormat,
                 dirCreated>>

\* ------------------------------------------------------- Scraper.printPdf
\* page.ts 60-62: if (!this.browser) throw new Error('Browser not initialized...')
PrintPdfGuard ==
  /\ pc = "printPdf"
  /\ IF browserMissing
       THEN Throw("SessionNotReady")
       ELSE pc' = "printNewPage" /\ UNCHANGED <<err, outcome>>
  /\ UNCHANGED <<call, runs, errorsPrinted, fnVars, auxVars, sessVars, pageVars, dataVars,
                 histVars, outVars>>

\* page.ts 64: const page = await this.browser.newPage()
PrintNewPage ==
  /\ pc = "printNewPage"
  /\ \/ /\ printPage' = "open"
        /\ owner' = [owner EXCEPT !.print = browser]
        /\ pc' = "setContent"
        /\ UNCHANGED <<err, outcome>>
     \/ /\ printPage' = printPage /\ owner' = owner
        /\ Throw("NewPageError")
  /\ UNCHANGED <<call, runs, errorsPrinted, fnVars, url, usage, leakedPages, sessVars, page, pageCloseCalls,
                 openPages, opts, steps, dataVars, histVars, outVars>>

\* page.ts 66: await page.setContent(htmlContent, { waitUntil: 'networkidle0' })
SetContent ==
  /\ pc = "setContent"
  /\ \/ /\ pc' = "pdf" /\ openPages' = openPages
        /\ UNCHANGED <<err, outcome>>
     \/ /\ openPages' = openPages + 1
        /\ Throw("SetContentError")
  /\ UNCHANGED <<call, runs, errorsPrinted, fnVars, auxVars, sessVars, page, pageCloseCalls,
                 printPage, opts, steps, dataVars, histVars, outVars>>

\* page.ts 68-81: await page.pdf({ path: documentPath, ... }); printPdf returns
\* without closing its page
Pdf ==
  /\ pc = "pdf"
  /\ openPages' = openPages + 1
  /\ \/ /\ files' = files \cup
             {File(finalPath(url) \o <<".pdf">>, "pdf", declutteredMarkdown)}
        /\ Return(afterStage("printPdf"))
     \/ /\ files' = files
        /\ Throw("PdfError")
  /\ UNCHANGED <<call, runs, errorsPrinted, fnVars, auxVars, sessVars, page, pageCloseCalls,
                 printPage, opts, steps, dataVars, histVars, outputFormat,
                 dirCreated>>

\* ---------------------------------------------------------- Scraper.close
\* declutter.ts 70-72: finally { await scraper.close(); }
Finally ==
  /\ pc = "finally"
  /\ log' = Logged(<<"close", "begin">>)
  /\ pc' = "close"
  /\ UNCHANGED <<call, err, outcome, runs, errorsPrinted, fnVars, auxVars, sessVars, pageVars,
                 dataVars, launches, gotos, streamCalls, closes, outVars>>

\* page.ts 295: if (this.browser) { ... }; with no browser close() just returns
CloseGuard ==
  /\ pc = "close"
  /\ IF isInitialized
       THEN /\ closes' = Append(closes, "pending")
            /\ pc' = "browserClose" /\ log' = log /\ UNCHANGED <<err, outcome>>
       ELSE /\ closes' = Append(closes, "noop")
            /\ log' = Logged(<<"close", "end">>) /\ Return(afterStage("close"))
  /\ UNCHANGED <<call, runs, errorsPrinted, fnVars, auxVars, sessVars, pageVars, dataVars,
                 launches, gotos, streamCalls, outVars>>

\* the process after browser.close(): terminated ("dead"), or the call rejected
Terminated(p, how) ==
  [state |-> how, attempts |-> p.attempts + 1,
   kills |-> IF how = "dead" THEN p.kills + 1 ELSE p.kills]

\* page.ts 296-297: await this.browser.close(); this.browser = null
BrowserCloseOk ==
  /\ pc = "browserClose"
  /\ procs' = [procs EXCEPT ![browser] = Terminated(@, "dead")]
  /\ browser' = closedHandle(browser)
  /\ openPages' = 0 /\ leakedPages' = 0
  /\ closes' = [closes EXCEPT ![Len(closes)] = "terminated"]
  /\ log' = Logged(<<"close", "end">>)
  /\ Return(afterStage("close"))
  /\ UNCHANGED <<call, runs, errorsPrinted, fnVars, url, usage, owner, page, pageCloseCalls, printPage,
                 opts, steps, dataVars, launches, gotos, streamCalls, outVars>>

\* page.ts 296: browser.close() rejects; close() has no try/catch, so the
\* rejection leaves close() before `this.browser = null`, and, thrown from
\* declutterUrl's finally block, it is what declutterUrl throws
BrowserCloseFail ==
  /\ pc = "browserClose"
  /\ procs' = [procs EXCEPT ![browser] = Terminated(@, "closeFailed")]
  /\ browser' = browser
  /\ outcome' = "BrowserCloseError"
  /\ pc' = IF call = "declutterUrl" THEN "handler" ELSE "api"
  /\ closes' = [closes EXCEPT ![Len(closes)] = "rejected"]
  /\ UNCHANGED <<call, err, runs, errorsPrinted, fnVars, auxVars, pageVars, dataVars, log,
                 launches, gotos, streamCalls, outVars>>

\* declutter.ts 70-73: the finally block completed: declutterUrl returns, or
\* rethrows the exception that entered the finally block
DeclutterUrlEnd ==
  /\ pc = "end"
  /\ outcome' = IF err = NoError THEN "ok" ELSE err
  /\ pc' = "handler"
  /\ UNCHANGED <<call, err, runs, errorsPrinted, fnVars, auxVars, sessVars, pageVars,
                 dataVars, histVars, outVars>>

\* ------------------------------------------ a call of the exported API
ApiBegin ==
  /\ pc = "api" /\ runs < MaxCalls
  /\ FreshRun
  /\ runs' = runs + 1 /\ outcome' = NoError
  /\ UNCHANGED <<errorsPrinted, fnVars, sessVars, openPages, outputFormat, url,
                 leakedPages>>

\* callers check isInitialized() before initialize() (declutter.ts 25, outputs.ts 81)
ApiInitialize ==
  /\ ApiBegin /\ ~isInitialized
  /\ call' = "initialize" /\ pc' = "initialize"
  /\ UNCHANGED <<opts, tempMarkdown>>

ApiScrapePage ==
  /\ ApiBegin
  /\ \E o \in ScrapeOptions : opts' = o
  /\ call' = "scrapePage" /\ pc' = "createPage"
  /\ UNCHANGED tempMarkdown

ApiPrintPdf ==
  /\ ApiBegin
  /\ call' = "printPdf" /\ pc' = "printPdf"
  /\ UNCHANGED <<opts, tempMarkdown>>

ApiClose ==
  /\ ApiBegin
  /\ call' = "close" /\ pc' = "close"
  /\ UNCHANGED <<opts, tempMarkdown>>

ApiDeclutterToMarkdown ==
  /\ ApiBegin
  /\ \E d \in Docs : tempMarkdown' = d
  /\ call' = "declutterToMarkdown" /\ pc' = "declutterToMarkdown"
  /\ UNCHANGED opts

\* ------------------------------------------- the rules of convertToMarkDown
\* utility 53: src.match(/^https?:\/\//); a source is a sequence of the tokens
\* "http:", "https:", "/" and other characters
isHttpUrl(src) ==
  startsWith(src, <<"http:", "/", "/">>) \/ startsWith(src, <<"https:", "/", "/">>)

\* utility 53-65: a source that is not an http(s) URL is made absolute
rewriteSrcSlashFirst(src, hostname) ==
  IF src # <<>> /\ ~isHttpUrl(src)
    THEN IF startsWith(src, <<"/">>) THEN hostname \o src
         ELSE IF startsWith(src, <<"/", "/">>) THEN <<"https:">> \o src
              ELSE hostname \o <<"/">> \o src
    ELSE src
rewriteSrc(src, hostname) ==
  IF src # <<>> /\ ~isHttpUrl(src)
    THEN IF startsWith(src, <<"/", "/">>) THEN <<"https:">> \o src
         ELSE IF startsWith(src, <<"/">>) THEN hostname \o src
              ELSE hostname \o <<"/">> \o src
    ELSE src

\* utility 47-74: the replacement of an img element; getAttribute('src') is
\* null when the element has no src attribute
imageRule(imgNode, hostname) ==
  LET alt == imgNode.alt
      src == rewriteSrc(IF imgNode.src.defined THEN imgNode.src.text ELSE <<>>,
                        hostname)
      title == imgNode.title
      titlePart == IF title # <<>> THEN <<" \"">> \o title \o <<"\"">> ELSE <<>>
  IN IF src # <<>>
       THEN <<"![">> \o alt \o <<"](">> \o src \o titlePart \o <<")">>
       ELSE <<>>

\* utility 32: if (rowIndex === 0), the row the separator follows
isEveryRow(rowIndex) == TRUE
isHeaderRow(rowIndex) == rowIndex = 0

\* utility 25-29: the trimmed text of the cells of a row
rowContent(cells) ==
  joinWith([i \in DOMAIN cells |-> trim(cells[i])], <<" | ">>)
\* utility 33-35: one '---' per cell of the row
separators(cells) == joinWith([i \in DOMAIN cells |-> <<"---">>], <<" | ">>)

RECURSIVE forEachRow(_, _)
\* utility 23-38: rows.forEach((row, rowIndex) => ...), from rowIndex on
forEachRow(rows, rowIndex) ==
  IF rowIndex >= Len(rows) THEN <<>>
  ELSE LET cells == rows[rowIndex + 1]
       IN <<"| ">> \o rowContent(cells) \o <<" |\n">>
            \o (IF isHeaderRow(rowIndex)
                  THEN <<"| ">> \o separators(cells) \o <<" |\n">>
                  ELSE <<>>)
            \o forEachRow(rows, rowIndex + 1)

\* utility 17-42: the replacement of a table element: its rows (tr), each a
\* list of the text of its cells (td, th)
tableRule(rows) == forEachRow(rows, 0)

\* ------------------------------------------------- the shared converter
\* utility 45, 47: tdService.addRule(key, rule).  Turndown puts an added rule
\* in front of the rules it has (unshift) and keeps the earlier ones
addRuleLast(array, rule) == Append(array, rule)
addRule(array, rule) == <<rule>> \o array

\* Turndown picks, for an element, the first rule of its list whose filter
\* selects the element
forNode(array, element) ==
  array[CHOOSE i \in DOMAIN array :
          /\ array[i].filter = element.tag
          /\ \A j \in 1..(i - 1) : array[j].filter # element.tag]

\* the replacement function of a rule, applied to an element; the CommonMark
\* image rule writes the source as it is
replacement(rule, element) ==
  CASE rule.key = "table" -> tableRule(element.rows)
    [] rule.key = "images" -> imageRule(element.img, rule.hostname)
    [] rule.key = "image" ->
         LET imgNode == element.img
             src == IF imgNode.src.defined THEN imgNode.src.text ELSE <<>>
             titlePart == IF imgNode.title # <<>>
                            THEN <<" \"">> \o imgNode.title \o <<"\"">>
                            ELSE <<>>
         IN IF src # <<>>
              THEN <<"![">> \o imgNode.alt \o <<"](">> \o src \o titlePart
                     \o <<")">>
              ELSE <<>>

\* utility 77: tdService.turndown(input), for a document of one element
turndown(array, element) == replacement(forNode(array, element), element)

\* documents: the empty string, one img element or one table element
NoImg == [alt |-> <<>>, src |-> Undefined, title |-> <<>>]
EmptyInput == [tag |-> "none", img |-> NoImg, rows |-> <<>>]
ConvInputs ==
  {EmptyInput,
   [tag |-> "table", img |-> NoImg,
    rows |-> <<<<<<"a">>, <<"b">>>>, <<<<"c">>, <<"d">>>>>>]} \cup
  {[tag |-> "img", img |-> [alt |-> <<"a">>, src |-> src, title |-> <<>>],
    rows |-> <<>>] :
     src \in {Undefined, Str(<<"/", "x">>), Str(<<"x">>), Str(<<"/", "/", "x">>),
              Str(<<"https:", "/", "/", "x">>)}}
ConvHostnames ==
  {<<"a", ".", "c", "o">>, <<"b", ".", "c", "o">>, <<"c", ".", "c", "o">>}

\* the calls of convertToMarkDown made so far (two rules are added per call)
conversions == (Len(rules) - Len(commonmarkRules)) \div 2

InitConv ==
  /\ call = "none" /\ pc = "conv" /\ InitCommon
  /\ applied = NoInput /\ returned = NoResult

\* utility 44-80: convertToMarkDown(input, hostname)
ConvertToMarkDown ==
  /\ pc = "conv" /\ conversions < MaxConversions
  /\ \E document \in ConvInputs, hostname \in ConvHostnames :
       LET array == addRule(addRule(rules, Rule("table", "table", <<>>)),
                            Rule("images", "img", hostname))
       IN  /\ rules' = array
           /\ applied' = [fn |-> "convertToMarkDown",
                          arg |-> [input |-> document, hostname |-> hostname]]
           /\ returned' = [done |-> TRUE,
                           value |-> IF document # EmptyInput
                                       THEN turndown(array, document)
                                       ELSE <<>>]
  /\ UNCHANGED <<ctlVars, sessVars, pageVars, dataVars, histVars, outVars,
                 auxVars>>

SpecConv == InitConv /\ [][ConvertToMarkDown]_vars

\* ------------------------------------------------------ convertMarkdownTo
\* outputs.ts 197: the keys of stylesMap, and the style sheet of each
StyleNames ==
  {"MINIMALIST_SWISS", "BRUTALIST_CONCRETE", "CLASSIC_BOOK", "TECH_TERMINAL",
   "MINIMALIST_MODERN", "REFINED_ELEGANCE"}
stylesMap == [name \in StyleNames |-> <<"css", name>>]
DEFAULT_STYLE == "MINIMALIST_SWISS"

\* utility 94-99: marked.parse(input)
markdownToHtml(markdown) == [marked |-> markdown]

\* outputs.ts 1144-1148: the template with its two placeholders replaced
styledHtml(toWrap, style) == [body |-> toWrap, styleSheet |-> stylesMap[style]]

\* outputs.ts 52-98: the document convertMarkdownTo writes (html) or hands to
\* printPdf (pdf)
convertMarkdownTo(markdownContent, format, styleName) ==
  CASE format = "html" ->
         styledHtml(markdownToHtml(markdownContent), styleName)
    [] format = "pdf" ->
         styledHtml(markdownToHtml(markdownContent), DEFAULT_STYLE)

\* ------------------------------------------- randomized human behaviour
\* Math.floor(Math.random() * n): Math.random() is in [0, 1), so every
\* integer of 0..n-1 and no other
floorRandom(n) == 0..(n - 1)

\* page.ts 5-8: the delay randomDelay(min, max) waits, for the draw
\* k = Math.floor(Math.random() * (max - min + 1))
randomDelay(min, max, k) == k + min

\* page.ts 227, 239, 246: the three pauses of scrapePage
Pauses == {[min |-> 500, max |-> 1500], [min |-> 300, max |-> 800],
           [min |-> 500, max |-> 1000]}

\* JavaScript numbers are IEEE-754 binary64.  The values of randomScroll lie
\* in [8, 1024), where a binary64 value is a multiple of 2^-49:
\* [whole, hi, lo] stands for whole + hi / 2^25 + lo / 2^49.
HiRadix == 33554432
LoRadix == 16777216
Double(whole, hi, lo) == [whole |-> whole, hi |-> hi, lo |-> lo]

\* carries of the low limbs moved up
normalise(whole, hi, lo) ==
  LET h == hi + (lo \div LoRadix)
  IN  Double(whole + (h \div HiRadix), h % HiRadix, lo % LoRadix)

\* a 53-bit significand: in [8, 16) all 49 fraction bits are kept, and each
\* doubling of the value drops one more
droppedBits(whole) ==
  CASE whole < 16 -> 0
    [] whole \in 16..31 -> 1
    [] whole \in 32..63 -> 2
    [] whole \in 64..127 -> 3
    [] whole \in 128..255 -> 4
    [] whole \in 256..511 -> 5
    [] OTHER -> 6

\* round to nearest, ties to even; `tail` tells where the part of the exact
\* value below 2^-49 lies: "zero", "below", "half" or "above" half of 2^-49
roundToNearestEven(x, tail) ==
  LET s == droppedBits(x.whole)
      unit == 2 ^ s
      rem == x.lo % unit
      odd == (x.lo \div unit) % 2 = 1
      up == IF s = 0
              THEN tail = "above" \/ (tail = "half" /\ odd)
              ELSE \/ 2 * rem > unit
                   \/ 2 * rem = unit /\ (tail # "zero" \/ odd)
  IN  normalise(x.whole, x.hi, (x.lo - rem) + (IF up THEN unit ELSE 0))

\* page.ts 282-283: distance / 10 for an integer distance
divideBy10(distance) ==
  LET r == distance % 10
      r1 == (r * HiRadix) % 10
      r2 == (r1 * LoRadix) % 10
      tail == CASE r2 = 0 -> "zero" [] r2 \in 1..4 -> "below"
                [] r2 = 5 -> "half" [] OTHER -> "above"
  IN  roundToNearestEven(Double(distance \div 10, (r * HiRadix) \div 10,
                                (r1 * LoRadix) \div 10), tail)

\* page.ts 283: totalHeight += distance / 10
plus(a, b) ==
  roundToNearestEven(normalise(a.whole + b.whole, a.hi + b.hi, a.lo + b.lo),
                     "zero")

\* page.ts 280-289: the ticks of the interval up to the tick that resolves;
\* totalHeight >= distance, for an integer distance, compares the whole part
RECURSIVE ticks(_, _, _)
ticks(distance, step, totalHeight) ==
  LET total == plus(totalHeight, step)
  IN  IF total.whole >= distance THEN 1
      ELSE 1 + ticks(distance, step, total)

\* page.ts 274-292: randomScroll for the draw k = Math.floor(Math.random() * 500);
\* `scrolled` is what window.scrollBy(0, step) was asked for in all, exactly
randomScroll(k) ==
  LET distance == k + 100
      step == divideBy10(distance)
      n == ticks(distance, step, Double(0, 0, 0))
  IN  [distance |-> distance, ticks |-> n,
       scrolled |-> normalise(n * step.whole, n * step.hi, n * step.lo)]

\* ------------------------------------- a caller of the pure functions
\* host names: one to three labels
Labels == {<<"w", "w", "w">>, <<"a">>, <<"c", "o">>, <<"x", "w", "w", "w">>}
Hostnames ==
  {joinWith(ls, <<".">>) : ls \in UNION {[1..n -> Labels] : n \in {1, 2, 3}}}
\* paths: empty, or a slash followed by up to four characters
Pathnames ==
  {<<>>} \cup
  {<<"/">> \o p : p \in UNION {[1..n -> {"/", "a", "b"}] : n \in {0, 1, 2, 3, 4}}}
\* src attributes: absent, or up to four tokens
Sources ==
  {Undefined} \cup
  {Str(t) : t \in UNION {[1..n -> {"http:", "https:", "/", "x"}] : n \in {0, 1, 2, 3, 4}}}
ImgNodes ==
  [alt : {<<>>, <<"a">>}, src : Sources, title : {<<>>, <<"t">>}]
\* tables: up to three rows of up to two cells
Rows == UNION {[1..n -> {<<"a">>, <<" ", "b", " ">>}] : n \in {0, 1, 2}}
Tables == UNION {[1..n -> Rows] : n \in {0, 1, 2, 3}}

InitFn ==
  /\ call = "none" /\ pc = "fn" /\ InitCommon
  /\ returned = NoResult
  /\ \/ \E h \in Hostnames, p \in Pathnames :
          applied = [fn |-> "pathFromUrl", arg |-> Url(h, p)]
     \/ \E n \in ImgNodes :
          applied = [fn |-> "imageRule",
                     arg |-> [imgNode |-> n, hostname |-> <<"a", ".", "c", "o">>]]
     \/ \E t \in Tables : applied = [fn |-> "tableRule", arg |-> t]
     \/ \E p \in Pauses :
          \E k \in floorRandom(p.max - p.min + 1) :
            applied = [fn |-> "randomDelay",
                       arg |-> [min |-> p.min, max |-> p.max, draw |-> k]]
     \/ \E kx \in floorRandom(1000), ky \in floorRandom(800) :
          /\ kx \in {0, 999} \/ ky \in {0, 799}
          /\ applied = [fn |-> "mouseMove", arg |-> [x |-> kx, y |-> ky]]
     \/ \E k \in floorRandom(500) : applied = [fn |-> "randomScroll", arg |-> k]
     \/ \E f \in {"html", "pdf"}, n \in StyleNames :
          applied = [fn |-> "convertMarkdownTo",
                     arg |-> [markdownContent |-> <<"a">>, outputFormat |-> f,
                              styleName |-> n]]

Returned(value) ==
  /\ returned' = [done |-> TRUE, value |-> value]
  /\ pc' = "fnDone"
  /\ UNCHANGED <<call, err, outcome, runs, errorsPrinted, applied, rules,
                 sessVars, pageVars, dataVars, histVars, outVars, auxVars>>

PathFromUrl ==
  /\ pc = "fn" /\ applied.fn = "pathFromUrl"
  /\ Returned(pathFromUrl(applied.arg))

ImageRule ==
  /\ pc = "fn" /\ applied.fn = "imageRule"
  /\ Returned(imageRule(applied.arg.imgNode, applied.arg.hostname))

TableRule ==
  /\ pc = "fn" /\ applied.fn = "tableRule"
  /\ Returned(tableRule(applied.arg))

RandomDelay ==
  /\ pc = "fn" /\ applied.fn = "randomDelay"
  /\ Returned(randomDelay(applied.arg.min, applied.arg.max, applied.arg.draw))

\* page.ts 231-236: page.mouse.move(x, y)
MouseMove ==
  /\ pc = "fn" /\ applied.fn = "mouseMove"
  /\ Returned([x |-> applied.arg.x, y |-> applied.arg.y])

RandomScroll ==
  /\ pc = "fn" /\ applied.fn = "randomScroll"
  /\ Returned(randomScroll(applied.arg))

ConvertMarkdownTo ==
  /\ pc = "fn" /\ applied.fn = "convertMarkdownTo"
  /\ Returned(convertMarkdownTo(applied.arg.markdownContent,
                                applied.arg.outputFormat, applied.arg.styleName))

\* ------------------------------------------------------- specifications
\* the steps both clients reach (declutterUrl passes neither a selector nor
\* the screenshot option, so those two steps are a direct caller's only)
ScraperStep ==
  \/ InitializeOk \/ InitializeFail
  \/ CreatePageGuard \/ NewPage \/ CreatePageConfigure
  \/ Goto \/ HumanBehavior \/ Content \/ PageClose \/ Catch
  \/ PrintPdfGuard \/ PrintNewPage \/ SetContent \/ Pdf
  \/ CloseGuard \/ BrowserCloseOk \/ BrowserCloseFail

DistillStep ==
  \/ DeclutterGuard \/ StreamText
  \/ TextStreamChunk \/ TextStreamFail \/ TextStreamEnd

Next ==
  \/ ReplQuestion \/ ReplExit \/ ExecHandler
  \/ DeclutterUrlTry \/ DeclutterUrlScrape \/ Normalize \/ Metadata
  \/ WriteOutputMkdir \/ WriteHtml \/ WriteMd
  \/ Finally \/ DeclutterUrlEnd
  \/ ScraperStep \/ DistillStep

NextApi ==
  \/ ApiInitialize \/ ApiScrapePage \/ ApiPrintPdf \/ ApiClose
  \/ ApiDeclutterToMarkdown
  \/ WaitForSelector \/ Screenshot
  \/ ScraperStep \/ DistillStep

Spec == Init /\ [][Next]_vars

\* ------------------------------------------- collaborators that never answer
\* Only page.goto (page.ts 212) and page.waitForSelector (page.ts 221) are
\* given this.config.timeout, and the defaults set at page.ts 169-170 apply
\* to navigations and waitFor* calls of the page createPage made.  The awaits
\* below are given no timeout: page.evaluate of randomScroll (275),
\* page.content() (251), setContent and pdf on the page printPdf opened itself
\* (66, 68), and the iteration of stream.textStream (llm.ts 25).
\* The collaborator awaited at such a point never settles the promise.
NeverResponds ==
  /\ pc \in {"randomScroll", "content", "setContent", "pdf", "textStream"}
  /\ pc' = "waiting"
  /\ UNCHANGED <<call, err, outcome, runs, errorsPrinted, fnVars, auxVars,
                 sessVars, pageVars, dataVars, histVars, outVars>>

NextLive == Next \/ NeverResponds

\* the event loop runs a continuation that is ready; the user keeps typing
SpecLive == Init /\ [][NextLive]_vars /\ WF_vars(NextLive)

SpecApi == InitApi /\ [][NextApi]_vars

NextFn ==
  \/ PathFromUrl \/ ImageRule \/ TableRule \/ ConvertMarkdownTo
  \/ RandomDelay \/ MouseMove \/ RandomScroll

SpecFn == InitFn /\ [][NextFn]_vars

\* =================================================================== claims
Range(f) == {f[i] : i \in DOMAIN f}

\* control is inside scrapePage (createPage included)
InScrapePage ==
  pc \in {"createPage", "newPage", "goto", "waitForSelector", "content",
          "screenshot", "pageClose", "catch"}
         \cup Range(CreatePageSteps) \cup Range(HumanSteps)

\* scrapePage was called by the current run and left by an exception
AcquisitionFailed ==
  /\ ~InScrapePage
  /\ <<"acquisition", "begin">> \in Range(log)
  /\ <<"acquisition", "end">> \notin Range(log)

\* declutterToMarkdown was called by the current run and left by an exception
DistillationFailed ==
  /\ pc \notin {"declutterToMarkdown", "streamText", "textStream"}
  /\ <<"distillation", "begin">> \in Range(log)
  /\ <<"distillation", "end">> \notin Range(log)

\* C1: whenever a run of declutterUrl has returned or thrown, Scraper.close()
\* was invoked during the run and isInitialized() is false.
C1_SessionReleased ==
  pc = "handler" => (Len(closes) >= 1 /\ ~isInitialized)

\* C2: once scrapePage has returned or thrown, the page it opened has had
\* page.close() invoked on it exactly once.
C2_PageClosedExactlyOnce ==
  (page # "none" /\ ~InScrapePage) => pageCloseCalls = 1

\* C3: when scrapePage throws after browser.newPage() opened a page, whichever
\* step failed, page.close() was invoked on the page before the error left
\* scrapePage.
C3_PageClosedOnFailure ==
  (AcquisitionFailed /\ page # "none") => pageCloseCalls >= 1

\* C4: Scraper.close() never throws: a rejected browser.close() does not reach
\* the caller of close().
C4_CloseNeverThrows ==
  outcome # "BrowserCloseError"

\* C5: Scraper.close() is idempotent. A close() that finds no browser (never
\* initialized, or already closed) attempts no termination, leaves the
\* session closed and returns normally; a close() that returns normally from
\* a live session has terminated its process and dropped the handle; no
\* process is ever terminated twice, however often close() is called.
C5_CloseIdempotent ==
  [][ /\ (pc = "close" /\ browser = NoBrowser)
           => (browser' = NoBrowser /\ procs' = procs
               /\ pc' = "api" /\ outcome' = "ok")
      /\ (pc = "browserClose" /\ outcome' = "ok")
           => (browser' = NoBrowser /\ procs'[browser].kills = 1)
      /\ \A i \in DOMAIN procs' : procs'[i].kills <= 1 ]_vars

\* a close() call that found the session already closed by an earlier close()
C5_Witness ==
  /\ call = "close" /\ pc = "api" /\ outcome = "ok"
  /\ closes = <<"noop">>
  /\ ~isInitialized
  /\ Len(procs) = 1 /\ procs[1].kills = 1 /\ procs[1].attempts = 1

\* C6: createPage (hence scrapePage) and printPdf called while the session is
\* not initialized fail with the session-not-ready error, open no page and
\* leave the session as it was.
C6_NotReadyRejected ==
  [][ (pc \in {"createPage", "printPdf"} /\ browser = NoBrowser)
        => (/\ outcome' = "SessionNotReady" /\ pc' = "api"
            /\ UNCHANGED <<browser, procs, page, printPage, openPages>>) ]_vars

\* scrapePage was called on a session that is not initialized and has thrown
C6_Witness ==
  /\ call = "scrapePage" /\ pc = "api"
  /\ outcome = "SessionNotReady"
  /\ page = "none" /\ pageCloseCalls = 0 /\ ~isInitialized

\* the stages of a run, in the order of the statements of declutterUrl
StageOrder ==
  <<"initialize", "acquisition", "normalization", "distillation", "output", "close">>
Rank(stage) == CHOOSE i \in DOMAIN StageOrder : StageOrder[i] = stage
\* the stage that has begun and not yet ended
OpenStage ==
  IF log # <<>> /\ log[Len(log)][2] = "begin" THEN log[Len(log)][1] ELSE "none"
\* the stage a statement belongs to
StageOfPc ==
  CASE pc = "initialize" -> "initialize"
    [] InScrapePage -> "acquisition"
    [] pc \in {"streamText", "textStream"} -> "distillation"
    [] pc \in {"writeOutput", "writeHtml", "writeMd", "printPdf",
               "printNewPage", "setContent", "pdf"} -> "output"
    [] pc = "browserClose" -> "close"
    [] OTHER -> "none"

\* C7: in every run of declutterUrl the stages occur in the order session
\* initialization, page acquisition, normalization, distillation, output
\* materialization, session close: a stage ends before any other begins,
\* every stage but the close begins directly after the stage before it has
\* ended (acquisition may be the first when the session is already live),
\* every step runs inside its own stage, and a stage starts from the whole
\* output of the stage before it.
C7_StagesInOrder ==
  /\ \A i \in DOMAIN log :
       /\ log[i][2] = "end" => (i > 1 /\ log[i - 1] = <<log[i][1], "begin">>)
       /\ (log[i][2] = "begin" /\ i > 1) =>
            /\ log[i - 1][2] = "end" \/ log[i][1] = "close"
            /\ Rank(log[i - 1][1]) < Rank(log[i][1])
            /\ log[i][1] # "close" =>
                 log[i - 1] = <<StageOrder[Rank(log[i][1]) - 1], "end">>
       /\ (log[i][2] = "begin" /\ i = 1) =>
            log[i][1] \in {"initialize", "acquisition"}
  /\ StageOfPc # "none" => OpenStage = StageOfPc
  /\ <<"distillation", "begin">> \in Range(log) => tempMarkdown = convertToMarkDown(html)
  /\ pc = "writeOutput" => declutteredMarkdown = withMetadata(decluttered)

\* a run that went through all six stages and returned normally
C7_Witness ==
  /\ pc = "handler" /\ outcome = "ok"
  /\ log = <<<<"initialize", "begin">>, <<"initialize", "end">>,
             <<"acquisition", "begin">>, <<"acquisition", "end">>,
             <<"normalization", "begin">>, <<"normalization", "end">>,
             <<"distillation", "begin">>, <<"distillation", "end">>,
             <<"output", "begin">>, <<"output", "end">>,
             <<"close", "begin">>, <<"close", "end">>>>

\* C8: no stage retries and none runs after a failed one: per run the browser
\* launch, the navigation and the text-generation request are attempted at
\* most once; a failed acquisition means no text-generation request, a failed
\* distillation means no file written; and the failure is what declutterUrl
\* throws, after the session has been closed.
C8_NoRetryFailFast ==
  pc = "handler" =>
    /\ launches <= 1 /\ gotos <= 1 /\ streamCalls <= 1
    /\ AcquisitionFailed => streamCalls = 0
    /\ DistillationFailed => files = {}
    /\ err # NoError => (outcome = err /\ ~isInitialized)

\* blank: empty, or whitespace only
IsBlank(d) == \A i \in DOMAIN d : d[i] = " "

\* C9: declutterToMarkdown called with a blank document (empty, or whitespace
\* only) never invokes streamText and fails with the empty-input error.
C9_BlankRejected ==
  (call = "declutterToMarkdown" /\ IsBlank(tempMarkdown)) =>
    (streamCalls = 0 /\ (pc = "api" => outcome = "EmptyInput"))

\* C10 as stated: for every finite sequence of chunks the returned document
\* equals the concatenation of the chunks in arrival order.
C10_ConcatOfEveryStream ==
  pc = "metadata" => decluttered = Str(join(delivered))

\* C10, amended: for every non-empty finite sequence of chunks the returned
\* document is the concatenation of all chunks in arrival order; when the
\* stream delivers no chunk the function returns undefined, not the empty
\* string.
C10_ConcatInOrder ==
  pc = "metadata" =>
    decluttered = IF delivered = <<>> THEN Undefined ELSE Str(join(delivered))

\* two different chunks were delivered and the document is returned
C10_Witness ==
  /\ pc = "metadata"
  /\ delivered = <<<<"a">>, <<"b">>>>
  /\ decluttered = Str(<<"a", "b">>)

\* the service produced no content: the returned document is undefined or ''
NoContent == ~decluttered.defined \/ decluttered.text = <<>>

\* C11: when the service delivers no content (no chunk, or empty chunks only)
\* the distillation returns without an error, with an undefined or empty
\* document; the markdown handed to writeOutput is then the metadata table
\* alone, and the run goes on into writeOutput and into the session close.
C11_EmptyDistillation ==
  /\ (pc = "metadata" /\ join(delivered) = <<>>) => (err = NoError /\ NoContent)
  /\ (pc = "writeOutput" /\ NoContent) => declutteredMarkdown = metadataTable
  /\ (pc = "handler" /\ <<"distillation", "end">> \in Range(log) /\ NoContent) =>
       /\ <<"output", "begin">> \in Range(log)
       /\ <<"close", "begin">> \in Range(log)
       /\ \A f \in files : f.text = metadataTable

\* the stream ended without a chunk; the run wrote the table alone and returned
C11_Witness ==
  /\ pc = "handler" /\ outcome = "ok"
  /\ ~decluttered.defined
  /\ files = {File(finalPath(url) \o <<".md">>, "markdown", metadataTable)}

\* one line of the table, after the newline that joins it to the line before
Line(label, cell) == <<"\n", "| ">> \o label \o <<" | ">> \o cell \o <<" |">>
\* the cell of a token counter: its decimal digits, or nothing when absent
Cell(counter) == IF counter.type = "number" THEN <<ToString(counter.n)>> ELSE <<>>
\* the distilled body: the text of the document, nothing when there is none
Body == IF decluttered.defined THEN decluttered.text ELSE <<>>

\* C12: the markdown handed to writeOutput is the distilled body followed by
\* the metadata table, whose rows are, in this order, Url, Time, Input Tokens,
\* Output Tokens, Total Tokens; the table is there whether or not the body is
\* empty, and an absent token counter is an empty cell.
C12_MetadataTable ==
  pc = "writeOutput" =>
    declutteredMarkdown =
      Body \o <<"\n", "\n", " ", "| Metadata | Value |", "\n", "|-------|-------|">>
        \o Line(<<"U", "r", "l">>, href(url))
        \o Line(<<"T", "i", "m", "e">>, Now)
        \o Line(<<"I", "n", "p", "u", "t", " ", "T", "o", "k", "e", "n", "s">>,
                Cell(usage.inputTokens))
        \o Line(<<"O", "u", "t", "p", "u", "t", " ", "T", "o", "k", "e", "n", "s">>,
                Cell(usage.outputTokens))
        \o Line(<<"T", "o", "t", "a", "l", " ", "T", "o", "k", "e", "n", "s">>,
                Cell(usage.totalTokens))

\* a body of two characters and no counter reported: three empty cells
C12_Witness ==
  /\ pc = "writeOutput"
  /\ decluttered = Str(<<"a", "b">>)
  /\ usage = NoUsage
  /\ SubSeq(declutteredMarkdown, Len(declutteredMarkdown) - 1,
            Len(declutteredMarkdown)) = <<" | ", " |">>

\* <outputDirectory>/Decluttered/<directory>/<fileName>
Prefix ==
  <<"out", "/", "Decluttered", "/">> \o pathFromUrl(url).directory
    \o <<"/">> \o pathFromUrl(url).fileNamePrefix

\* C13: for every format, when writeOutput returns the raw markdown is in
\* <outputDirectory>/Decluttered/<directory>/<fileName>.md; for html and pdf
\* the rendered artifact is there too, under the same path prefix, and no
\* other file was written.
C13_MarkdownAlwaysWritten ==
  (files # {} \/ <<"output", "end">> \in Range(log)) =>
    LET prefix == Prefix
        mdPath == prefix \o <<".md">>
        htmlPath == prefix \o <<".html">>
        pdfPath == prefix \o <<".pdf">>
    IN /\ \A f \in files : f.path \in {mdPath, htmlPath, pdfPath}
       /\ <<"output", "end">> \in Range(log) =>
            files = {File(mdPath, "markdown", declutteredMarkdown)}
                    \cup (IF outputFormat = "html"
                            THEN {File(htmlPath, "html", declutteredMarkdown)}
                            ELSE {})
                    \cup (IF outputFormat = "pdf"
                            THEN {File(pdfPath, "pdf", declutteredMarkdown)}
                            ELSE {})

\* a pdf run returned: the document and the markdown lie side by side
C13_Witness ==
  /\ pc = "handler" /\ outcome = "ok" /\ outputFormat = "pdf"
  /\ {f.kind : f \in files} = {"markdown", "pdf"}
  /\ url.pathname = <<"/", "x", "/", "y">>

\* C14: a run launches the browser at most once; printPdf opens its page in
\* the browser scrapePage used, which the run has not closed yet: close() is
\* reached only after writeOutput returned, or with a failure in flight.
C14_OneSessionPerRun ==
  /\ launches <= 1
  /\ pc \in {"setContent", "pdf"} =>
       /\ owner.print = owner.scrape /\ owner.print = browser
       /\ isInitialized /\ closes = <<>>
  /\ pc = "finally" => (err # NoError \/ <<"output", "end">> \in Range(log))

\* the pdf is about to be printed in the browser this run launched
C14_Witness ==
  /\ pc = "pdf" /\ launches = 1
  /\ owner.scrape = browser /\ owner.print = browser

\* C15: over a REPL session the browser is launched once: the session of the
\* first call is the one every following call acquires its page in.
C15_SessionKeptAlive ==
  /\ Len(procs) <= 1
  /\ page = "open" => owner.scrape = 1

\* C16: REPL runs are serialized: the prompt is back only after the run
\* before has completed, its session close included, and never are two pages
\* of scrapePage open in the shared session.
C16_RunsSerialized ==
  /\ (pc = "repl" /\ runs > 0) => (outcome # NoError /\ closes # <<>>)
  /\ ~(InScrapePage /\ page = "open" /\ leakedPages > 0)

\* a function was applied and has returned
Applied(fn) == pc = "fnDone" /\ applied.fn = fn /\ returned.done

\* positions of the characters of a path that are not slashes
NonSlash(p) == {i \in DOMAIN p : p[i] # "/"}
Max(S) == CHOOSE m \in S : \A k \in S : k <= m
\* the last non-empty segment of a path: the characters after the last slash
\* that precedes the last character that is not a slash, up to that character
LastSegment(p) ==
  LET j == Max(NonSlash(p))
      i == Max({0} \cup {k \in 1..j : p[k] = "/"})
  IN SubSeq(p, i + 1, j)

\* C17: the file name pathFromUrl returns is the last non-empty segment of the
\* path, and `index` when the path is `/`, empty or has only empty segments.
C17_FileName ==
  Applied("pathFromUrl") =>
    returned.value.fileNamePrefix =
      IF NonSlash(applied.arg.pathname) = {}
        THEN <<"i", "n", "d", "e", "x">>
        ELSE LastSegment(applied.arg.pathname)

\* a path of two segments followed by a trailing slash
C17_Witness ==
  /\ Applied("pathFromUrl")
  /\ applied.arg.pathname = <<"/", "a", "/", "b", "/">>
  /\ returned.value.fileNamePrefix = <<"b">>

\* a host name without its leading `www.`
StripLeadingWww(h) ==
  IF Len(h) >= 4 /\ SubSeq(h, 1, 4) = <<"w", "w", "w", ".">>
    THEN SubSeq(h, 5, Len(h)) ELSE h

\* C18: the directory pathFromUrl returns is the host with a leading `www.`
\* stripped, and nothing else removed, and every dot replaced by a hyphen.
C18_Directory ==
  Applied("pathFromUrl") =>
    returned.value.directory =
      [i \in DOMAIN StripLeadingWww(applied.arg.hostname) |->
         IF StripLeadingWww(applied.arg.hostname)[i] = "."
           THEN "-" ELSE StripLeadingWww(applied.arg.hostname)[i]]

\* the four cases of a non-empty image source
SourceCases(src) ==
  LET absolute == /\ Len(src) >= 3 /\ src[1] \in {"http:", "https:"}
                  /\ src[2] = "/" /\ src[3] = "/"
      slashes == IF src[1] # "/" THEN 0
                 ELSE IF Len(src) >= 2 /\ src[2] = "/" THEN 2 ELSE 1
  IN [absolute |-> absolute,
      protocolRelative |-> ~absolute /\ slashes = 2,
      rooted |-> ~absolute /\ slashes = 1,
      relative |-> ~absolute /\ slashes = 0]

\* C19: the source of an image is rewritten by exactly one of four cases: a
\* source starting with `//` gets `https:` in front; one starting with a
\* single `/` gets the host in front; any other source that is not an
\* http(s):// URL gets the host and a `/` in front; an http(s):// URL is
\* left as it is. An image without a source emits nothing.
C19_ImageSource ==
  Applied("imageRule") =>
    LET node == applied.arg.imgNode
        host == applied.arg.hostname
        src == IF node.src.defined THEN node.src.text ELSE <<>>
        c == SourceCases(src)
        Emitted(s) ==
          <<"![">> \o node.alt \o <<"](">> \o s
            \o (IF node.title = <<>> THEN <<>> ELSE <<" \"">> \o node.title \o <<"\"">>)
            \o <<")">>
    IN IF src = <<>> THEN returned.value = <<>>
       ELSE /\ Cardinality({k \in DOMAIN c : c[k]}) = 1
            /\ c.protocolRelative => returned.value = Emitted(<<"https:">> \o src)
            /\ c.rooted => returned.value = Emitted(host \o src)
            /\ c.relative => returned.value = Emitted(host \o <<"/">> \o src)
            /\ c.absolute => returned.value = Emitted(src)

\* a protocol-relative source: it starts with two slashes
C19_Witness ==
  /\ Applied("imageRule")
  /\ applied.arg.imgNode.src = Str(<<"/", "/", "x">>)
  /\ applied.arg.imgNode.alt = <<>> /\ applied.arg.imgNode.title = <<>>
  /\ returned.value = <<"![", "](", "https:", "/", "/", "x", ")">>

\* the line of a row: its trimmed cells between pipes
RowLine(cells) ==
  <<"| ">> \o joinWith([i \in DOMAIN cells |-> trim(cells[i])], <<" | ">>) \o <<" |\n">>
\* the separator of n cells
SeparatorLine(n) ==
  <<"| ">> \o joinWith([i \in 1..n |-> <<"---">>], <<" | ">>) \o <<" |\n">>

\* C20: for a table of at least one row the rule emits one pipe-delimited
\* line per row, in document order, and one separator row of dashes, right
\* after the line of the first row and with as many cells as the first row;
\* no separator follows a later row.
C20_TableSeparator ==
  (Applied("tableRule") /\ Len(applied.arg) >= 1) =>
    returned.value =
      join([i \in DOMAIN applied.arg |->
              IF i = 1
                THEN RowLine(applied.arg[1]) \o SeparatorLine(Len(applied.arg[1]))
                ELSE RowLine(applied.arg[i])])

\* a table of three rows, the first of two cells
C20_Witness ==
  /\ Applied("tableRule")
  /\ Len(applied.arg) = 3 /\ Len(applied.arg[1]) = 2 /\ Len(applied.arg[2]) = 1
  /\ Len(SelectSeq(returned.value, LAMBDA t : t = "---")) = 2

\* C21: a run of declutterUrl that failed inside its try block leaves nothing
\* on storage: no file it wrote and no directory it created.
C21_NoPartialOutput ==
  (pc = "handler" /\ err # NoError) => (files = {} /\ ~dirCreated)

C23_RequestedStyle ==
  Applied("convertMarkdownTo") =>
    returned.value.styleSheet = <<"css", applied.arg.styleName>>

\* the steps of one acquisition, in order, under the options in force
C24_Sequence ==
  <<"createCDPSession", "setUserAgentOverride", "setViewport",
    "setExtraHTTPHeaders", "evaluateOnNewDocument", "addRandomMouseMovements",
    "goto">>
    \o (IF opts.waitForSelector THEN <<"waitForSelector">> ELSE <<>>)
    \o (IF opts.humanBehavior
          THEN <<"delay1", "mouseMove", "delay2", "randomScroll", "delay3">>
          ELSE <<>>)
    \o <<"content">>
    \o (IF opts.screenshot THEN <<"screenshot">> ELSE <<>>)
    \o <<"pageClose">>

\* C24: the steps of scrapePage that completed are always an initial part of
\* page creation, navigation, optional selector wait, the five steps of the
\* behaviour simulation unless it is switched off, markup capture, optional
\* snapshot, page close; and a call that returned completed all of them.
C24_StrictSequence ==
  /\ Len(steps) <= Len(C24_Sequence)
  /\ steps = SubSeq(C24_Sequence, 1, Len(steps))
  /\ (call = "scrapePage" /\ pc = "api" /\ outcome = "ok")
       => steps = C24_Sequence

\* a call with every option on has returned after all sixteen steps
C24_Witness ==
  /\ call = "scrapePage" /\ pc = "api" /\ outcome = "ok"
  /\ opts.waitForSelector /\ opts.humanBehavior /\ opts.screenshot
  /\ Len(steps) = 16

\* C25: every pause lies between its two limits, the cursor target lies
\* inside the 1920x1080 viewport, and the distance randomScroll scrolls is
\* at least 100 and at most 600 pixels.
C25_InRange ==
  /\ Applied("randomDelay") =>
       returned.value \in applied.arg.min..applied.arg.max
  /\ Applied("mouseMove") =>
       /\ returned.value.x \in 0..1919
       /\ returned.value.y \in 0..1079
  /\ Applied("randomScroll") =>
       /\ returned.value.scrolled.whole >= 100
       /\ \/ returned.value.scrolled.whole < 600
          \/ returned.value.scrolled = [whole |-> 600, hi |-> 0, lo |-> 0]

\* C26: every run of declutterUrl that started eventually completes and is
\* back in the exec handler, whatever the collaborators do.
C26_EveryRunCompletes == (pc = "try") ~> (pc = "handler")

\* C27: whenever isInitialized() is true the held handle is that of a
\* launched browser on which no termination was attempted, and a run that
\* is navigating or printing does so in such a browser.
C27_HandleIsLive ==
  /\ isInitialized =>
       /\ browser \in DOMAIN procs
       /\ procs[browser].state = "live" /\ procs[browser].attempts = 0
  /\ pc \in {"goto", "setContent", "pdf"} =>
       /\ browser \in DOMAIN procs
       /\ procs[browser].attempts = 0

\* C28: the page printPdf opened is open only while printPdf is running: once
\* printPdf has returned or thrown, and so when writeOutput returns, it has
\* been closed.
C28_PrintPageClosed ==
  printPage = "open" => pc \in {"setContent", "pdf"}

\* C29: the error that leaves scrapePage's catch clause is the error that
\* entered it, and the error declutterUrl throws is the error that entered
\* its finally block: a failing page.close() or scraper.close() replaces
\* neither.
C29_OriginalErrorKept ==
  [][ /\ (pc = "catch" /\ pc' = "finally") => err' = err
      /\ (pc = "browserClose" /\ err # NoError /\ pc' = "handler")
           => outcome' = err ]_vars

\* C30: whatever calls of convertToMarkDown came before, a call returns what
\* its own input and its own hostname determine: an image is written with
\* the source resolved against the hostname of this call, a table by the
\* table rule.
C30_OwnHostname ==
  (applied.fn = "convertToMarkDown" /\ returned.done) =>
    LET document == applied.arg.input
    IN  returned.value =
          CASE document.tag = "img" ->
                 imageRule(document.img, applied.arg.hostname)
            [] document.tag = "table" -> tableRule(document.rows)
            [] OTHER -> <<>>

\* the third call has a hostname neither earlier call had, and its relative
\* image source comes out under that hostname
C30_Witness ==
  /\ conversions = 3
  /\ rules[1].hostname \notin {rules[3].hostname, rules[5].hostname}
  /\ applied.arg.hostname = rules[1].hostname
  /\ applied.arg.input.tag = "img"
  /\ applied.arg.input.img.src = Str(<<"x">>)
  /\ returned.value =
       <<"![", "a", "](">> \o applied.arg.hostname \o <<"/", "x", ")">>

====
